---- MODULE Spec2Model ----
(***************************************************************************)
(* Model of src-tauri/src/lib.rs of picologs:                              *)
(*   - find_star_citizen_logs: the ordered discovery of the Star Citizen   *)
(*     Game.log files (registry App Paths, registry InstallLocation,       *)
(*     %APPDATA%, directory-only fallback);                                *)
(*   - run: the single-instance callback that forwards the second launch   *)
(*     argument of a later launch as a "deep-link-received" event.         *)
(*                                                                         *)
(* A path is the sequence of its components (a drive prefix with its root  *)
(* is one component, "C:"); the strings the command returns are rendered   *)
(* from it with the Windows separator.                                     *)
(***************************************************************************)
EXTENDS Integers, Sequences, FiniteSets, TLC

VARIABLES
    \* ---- the host the command reads (never written by the program)
    windows,    \* TRUE: built with cfg(windows); FALSE: cfg(not(windows))
    reg1,       \* HKLM\...\App Paths\StarCitizen Launcher.exe, value "Path"
    reg2,       \* HKLM\...\Cloud Imperium Games\StarCitizen Launcher.exe, value "InstallLocation"
    appdata,    \* the environment variable APPDATA
    fs,         \* the set of paths that exist on the filesystem
    \* ---- one invocation of find_star_citizen_logs
    pc,         \* position of the running invocation
    paths,      \* the local Vec `paths`
    results,    \* what the completed invocations returned, in order
    probes,     \* the reads of the host made by the current/last invocation, in order
    calls,      \* number of invocations started
    \* ---- the running application (run)
    alive,      \* the primary instance is running
    launched,   \* number of later launches made so far
    inflight,   \* activations handed off by later launches, not yet delivered
    handled,    \* the activations the callback has run for
    emitted,    \* the emit_to calls made by the callback, in order
    stdout      \* the lines printed by the callback, in order

vars == <<windows, reg1, reg2, appdata, fs, pc, paths, results, probes, calls,
          alive, launched, inflight, handled, emitted, stdout>>

hostVars == <<windows, reg1, reg2, appdata, fs>>
discVars == <<pc, paths, results, probes, calls>>
appVars  == <<alive, launched, inflight, handled, emitted, stdout>>

----------------------------------------------------------------------------
(* Bounds of the model *)

\* invocations of find_star_citizen_logs in one behaviour
MaxCalls == 2

\* later launches of the application in one behaviour
MaxLaunches == 3

----------------------------------------------------------------------------
(* Paths: std::path::PathBuf on Windows *)

Drives == {"C:", "D:"}

\* Path::parent: None for the empty path and for a path that ends in a root
HasParent(p) == Len(p) >= 2 \/ (Len(p) = 1 /\ p[1] \notin Drives)

Parent(p) == SubSeq(p, 1, Len(p) - 1)

\* PathBuf::join with a relative single-component name
Join(p, name) == Append(p, name)

RECURSIVE JoinSep(_)
JoinSep(p) ==
    IF Len(p) = 0 THEN ""
    ELSE IF Len(p) = 1 THEN p[1]
    ELSE p[1] \o "\\" \o JoinSep(Tail(p))

\* path.to_string_lossy().to_string(): every component comes from a Rust String
\* or a literal, so nothing is replaced; the text is the components with "\"
ToStringLossy(p) ==
    IF Len(p) = 0 THEN ""
    ELSE IF p[1] \in Drives THEN p[1] \o "\\" \o JoinSep(Tail(p))
    ELSE JoinSep(p)

\* Path::exists
Exists(p) == p \in fs

----------------------------------------------------------------------------
(* Constants of find_star_citizen_logs *)

\* for env in &["LIVE", "PTU", "HOTFIX"]
Envs == <<"LIVE", "PTU", "HOTFIX">>

AppPathsKey ==
    "SOFTWARE\\Wow6432Node\\Microsoft\\Windows\\CurrentVersion\\App Paths\\StarCitizen Launcher.exe"

CigKey == "SOFTWARE\\Wow6432Node\\Cloud Imperium Games\\StarCitizen Launcher.exe"

NotFoundMsg == "Could not find Star Citizen installation or logs"

UnsupportedMsg == "Star Citizen is only available on Windows"

Ok(v) == [ok |-> TRUE, paths |-> v, err |-> ""]

Err(e) == [ok |-> FALSE, paths |-> <<>>, err |-> e]

----------------------------------------------------------------------------
(* The hosts the command is run on *)

Tiers == {"LIVE", "PTU", "HOTFIX"}

ProgramFiles == <<"C:", "Program Files", "Roberts Space Industries">>

Roaming == <<"C:", "Users", "u", "AppData", "Roaming">>

\* the three StarCitizen directories the strategies can be led to
ScProgramFiles == ProgramFiles \o <<"StarCitizen">>

ScGames == <<"D:", "Games", "StarCitizen">>

ScAppdata == Roaming \o <<"Roberts Space Industries", "StarCitizen">>

\* values of "Path": empty, a bare root, a launcher directory under Program
\* Files, a launcher directory beside the APPDATA StarCitizen directory
LauncherPaths ==
    { <<>>, <<"C:">>,
      ProgramFiles \o <<"RSI Launcher">>,
      Roaming \o <<"Roberts Space Industries", "RSI Launcher">> }

\* values of "InstallLocation"
InstallLocations == { <<>>, ProgramFiles, <<"D:", "Games">> }

\* a registry key: it cannot be opened, or its value cannot be read, or it
\* holds a string
RegStates(values) ==
    { [open |-> FALSE, has |-> FALSE, value |-> <<>>],
      [open |-> TRUE,  has |-> FALSE, value |-> <<>>] }
    \cup { [open |-> TRUE, has |-> TRUE, value |-> v] : v \in values }

\* APPDATA: unset (or not unicode), or set
AppdataStates ==
    { [set |-> FALSE, value |-> <<>>], [set |-> TRUE, value |-> Roaming] }

Prefixes(p) == { SubSeq(p, 1, k) : k \in 1..Len(p) }

\* a StarCitizen directory is absent, or present without any log, or present
\* with the Game.log of some tiers (a file exists only inside its directories)
DirStates(d) ==
    { {}, Prefixes(d) }
    \cup { UNION { Prefixes(d \o <<t, "Game.log">>) : t \in T } : T \in (SUBSET Tiers) \ {{}} }

FsStates ==
    { a \cup b \cup c : a \in DirStates(ScProgramFiles),
                        b \in DirStates(ScGames),
                        c \in DirStates(ScAppdata) }

HostInit ==
    /\ windows \in BOOLEAN
    /\ reg1 \in RegStates(LauncherPaths)
    /\ reg2 \in RegStates(InstallLocations)
    /\ appdata \in AppdataStates
    /\ fs \in FsStates

----------------------------------------------------------------------------
(* find_star_citizen_logs *)

Probe(s, op, arg) == [s |-> s, op |-> op, arg |-> arg]

LogPath(sc_path, i) == Join(Join(sc_path, Envs[i]), "Game.log")

\* the loop over the three environments: the Game.log paths that exist, as
\* strings, in the order of Envs
TierLogs(sc_path) ==
    LET all  == [i \in 1..Len(Envs) |-> LogPath(sc_path, i)]
        kept == SelectSeq(all, Exists)
    IN  [i \in 1..Len(kept) |-> ToStringLossy(kept[i])]

\* the existence checks that loop makes
TierProbes(s, sc_path) ==
    [i \in 1..Len(Envs) |-> Probe(s, "exists", ToStringLossy(LogPath(sc_path, i)))]

DiscInit ==
    /\ pc = "idle"
    /\ paths = <<>>
    /\ results = <<>>
    /\ probes = <<>>
    /\ calls = 0

\* variant: `paths` outlives the call (a static Vec instead of the local of
\* line 19)
Invoke_KeepsPaths ==
    /\ pc = "idle"
    /\ calls < MaxCalls
    /\ calls' = calls + 1
    /\ probes' = <<>>
    /\ pc' = IF windows THEN "s1" ELSE "not_windows"
    /\ UNCHANGED <<hostVars, appVars, results, paths>>

\* variant: the Windows body is compiled on every platform
Invoke_NoCfg ==
    /\ pc = "idle"
    /\ calls < MaxCalls
    /\ calls' = calls + 1
    /\ paths' = <<>>
    /\ probes' = <<>>
    /\ pc' = "s1"
    /\ UNCHANGED <<hostVars, appVars, results>>

\* the UI layer invokes the command; cfg selects the body that was compiled
Invoke ==
    /\ pc = "idle"
    /\ calls < MaxCalls
    /\ calls' = calls + 1
    /\ paths' = <<>>
    /\ probes' = <<>>
    /\ pc' = IF windows THEN "s1" ELSE "not_windows"
    /\ UNCHANGED <<hostVars, appVars, results>>

\* variant: strategy 1 also falls back to its directory when it holds no log
Strategy1_DirFallback ==
    /\ pc = "s1"
    /\ LET opened  == reg1.open
           got     == opened /\ reg1.has
           launcher_path == reg1.value
           descend == got /\ HasParent(launcher_path)
           sc_path == Join(Parent(launcher_path), "StarCitizen")
           logs    == TierLogs(sc_path)
       IN  /\ paths' = IF ~descend THEN paths
                       ELSE IF logs = <<>> /\ Exists(sc_path)
                            THEN paths \o <<ToStringLossy(sc_path)>>
                            ELSE paths \o logs
           /\ probes' = probes
                  \o <<Probe(1, "open_subkey", AppPathsKey)>>
                  \o (IF opened THEN <<Probe(1, "get_value", "Path")>> ELSE <<>>)
                  \o (IF descend THEN TierProbes(1, sc_path) ELSE <<>>)
                  \o (IF descend /\ logs = <<>>
                      THEN <<Probe(1, "exists", ToStringLossy(sc_path))>> ELSE <<>>)
    /\ pc' = "s2"
    /\ UNCHANGED <<hostVars, appVars, results, calls>>

\* variant: a failed registry read is propagated (open_subkey(..)?, get_value(..)?)
Strategy1_Fatal ==
    /\ pc = "s1"
    /\ LET opened  == reg1.open
           got     == opened /\ reg1.has
           launcher_path == reg1.value
           descend == got /\ HasParent(launcher_path)
           sc_path == Join(Parent(launcher_path), "StarCitizen")
       IN  /\ paths' = IF descend THEN paths \o TierLogs(sc_path) ELSE paths
           /\ probes' = probes
                  \o <<Probe(1, "open_subkey", AppPathsKey)>>
                  \o (IF opened THEN <<Probe(1, "get_value", "Path")>> ELSE <<>>)
                  \o (IF descend THEN TierProbes(1, sc_path) ELSE <<>>)
           /\ IF got
              THEN pc' = "s2" /\ UNCHANGED results
              ELSE pc' = "idle" /\ results' = Append(results, Err("registry read failed"))
    /\ UNCHANGED <<hostVars, appVars, calls>>

\* lines 24-41: the App Paths key
Strategy1 ==
    /\ pc = "s1"
    /\ LET opened  == reg1.open
           got     == opened /\ reg1.has
           launcher_path == reg1.value
           descend == got /\ HasParent(launcher_path)
           sc_path == Join(Parent(launcher_path), "StarCitizen")
       IN  /\ paths' = IF descend THEN paths \o TierLogs(sc_path) ELSE paths
           /\ probes' = probes
                  \o <<Probe(1, "open_subkey", AppPathsKey)>>
                  \o (IF opened THEN <<Probe(1, "get_value", "Path")>> ELSE <<>>)
                  \o (IF descend THEN TierProbes(1, sc_path) ELSE <<>>)
    /\ pc' = "s2"
    /\ UNCHANGED <<hostVars, appVars, results, calls>>

\* variant: the Cloud Imperium Games key is read without `if paths.is_empty()`
Strategy2_Unguarded ==
    /\ pc = "s2"
    /\ LET opened  == reg2.open
           got     == opened /\ reg2.has
           install_path == reg2.value
           sc_path == Join(install_path, "StarCitizen")
       IN  /\ paths' = IF got THEN paths \o TierLogs(sc_path) ELSE paths
           /\ probes' = probes
                  \o <<Probe(2, "open_subkey", CigKey)>>
                  \o (IF opened THEN <<Probe(2, "get_value", "InstallLocation")>> ELSE <<>>)
                  \o (IF got THEN TierProbes(2, sc_path) ELSE <<>>)
    /\ pc' = "s3"
    /\ UNCHANGED <<hostVars, appVars, results, calls>>

\* lines 43-58: the Cloud Imperium Games key, only while paths is empty
Strategy2 ==
    /\ pc = "s2"
    /\ IF paths = <<>>
       THEN LET opened  == reg2.open
                got     == opened /\ reg2.has
                install_path == reg2.value
                sc_path == Join(install_path, "StarCitizen")
            IN  /\ paths' = IF got THEN paths \o TierLogs(sc_path) ELSE paths
                /\ probes' = probes
                       \o <<Probe(2, "open_subkey", CigKey)>>
                       \o (IF opened THEN <<Probe(2, "get_value", "InstallLocation")>> ELSE <<>>)
                       \o (IF got THEN TierProbes(2, sc_path) ELSE <<>>)
       ELSE UNCHANGED <<paths, probes>>
    /\ pc' = "s3"
    /\ UNCHANGED <<hostVars, appVars, results, calls>>

\* variant: the APPDATA strategy runs without `if paths.is_empty()`
Strategy3_Unguarded ==
    /\ pc = "s3"
    /\ LET got == appdata.set
           sc_appdata == Join(Join(appdata.value, "Roberts Space Industries"), "StarCitizen")
           logs == TierLogs(sc_appdata)
       IN  /\ paths' = IF ~got THEN paths
                       ELSE IF paths \o logs = <<>> /\ Exists(sc_appdata)
                            THEN <<ToStringLossy(sc_appdata)>>
                            ELSE paths \o logs
           /\ probes' = probes
                  \o <<Probe(3, "env_var", "APPDATA")>>
                  \o (IF got THEN TierProbes(3, sc_appdata) ELSE <<>>)
                  \o (IF got /\ paths \o logs = <<>>
                      THEN <<Probe(3, "exists", ToStringLossy(sc_appdata))>> ELSE <<>>)
    /\ pc' = "ret"
    /\ UNCHANGED <<hostVars, appVars, results, calls>>

\* variant: a missing APPDATA is replaced by the usual roaming directory
\* (env::var("APPDATA").unwrap_or(..))
Strategy3_DefaultAppdata ==
    /\ pc = "s3"
    /\ IF paths = <<>>
       THEN LET base == IF appdata.set THEN appdata.value ELSE Roaming
                sc_appdata == Join(Join(base, "Roberts Space Industries"), "StarCitizen")
                logs == TierLogs(sc_appdata)
            IN  /\ paths' = IF logs = <<>> /\ Exists(sc_appdata)
                            THEN <<ToStringLossy(sc_appdata)>>
                            ELSE logs
                /\ probes' = probes
                       \o <<Probe(3, "env_var", "APPDATA")>>
                       \o TierProbes(3, sc_appdata)
                       \o (IF logs = <<>>
                           THEN <<Probe(3, "exists", ToStringLossy(sc_appdata))>> ELSE <<>>)
       ELSE UNCHANGED <<paths, probes>>
    /\ pc' = "ret"
    /\ UNCHANGED <<hostVars, appVars, results, calls>>

\* variant: the directory-only fallback (lines 74-77) is missing
Strategy3_NoDirFallback ==
    /\ pc = "s3"
    /\ IF paths = <<>>
       THEN LET got == appdata.set
                sc_appdata == Join(Join(appdata.value, "Roberts Space Industries"), "StarCitizen")
            IN  /\ paths' = IF got THEN TierLogs(sc_appdata) ELSE paths
                /\ probes' = probes
                       \o <<Probe(3, "env_var", "APPDATA")>>
                       \o (IF got THEN TierProbes(3, sc_appdata) ELSE <<>>)
       ELSE UNCHANGED <<paths, probes>>
    /\ pc' = "ret"
    /\ UNCHANGED <<hostVars, appVars, results, calls>>

\* lines 60-79: %APPDATA%, only while paths is empty, with the directory
\* itself as the last resort
Strategy3 ==
    /\ pc = "s3"
    /\ IF paths = <<>>
       THEN LET got == appdata.set
                sc_appdata == Join(Join(appdata.value, "Roberts Space Industries"), "StarCitizen")
                logs == TierLogs(sc_appdata)
                dir_checked == logs = <<>>
            IN  /\ paths' = IF ~got THEN paths
                            ELSE IF logs = <<>> /\ Exists(sc_appdata)
                                 THEN <<ToStringLossy(sc_appdata)>>
                                 ELSE logs
                /\ probes' = probes
                       \o <<Probe(3, "env_var", "APPDATA")>>
                       \o (IF got THEN TierProbes(3, sc_appdata) ELSE <<>>)
                       \o (IF got /\ dir_checked
                           THEN <<Probe(3, "exists", ToStringLossy(sc_appdata))>> ELSE <<>>)
       ELSE UNCHANGED <<paths, probes>>
    /\ pc' = "ret"
    /\ UNCHANGED <<hostVars, appVars, results, calls>>

\* variant: the emptiness test of lines 81-85 is missing
Return_AlwaysOk ==
    /\ pc = "ret"
    /\ results' = Append(results, Ok(paths))
    /\ pc' = "idle"
    /\ UNCHANGED <<hostVars, appVars, paths, probes, calls>>

\* lines 81-85
Return ==
    /\ pc = "ret"
    /\ results' = Append(results, IF paths = <<>> THEN Err(NotFoundMsg) ELSE Ok(paths))
    /\ pc' = "idle"
    /\ UNCHANGED <<hostVars, appVars, paths, probes, calls>>

\* lines 88-91: the body compiled on every other platform
NotWindows ==
    /\ pc = "not_windows"
    /\ results' = Append(results, Err(UnsupportedMsg))
    /\ pc' = "idle"
    /\ UNCHANGED <<hostVars, appVars, paths, probes, calls>>


----------------------------------------------------------------------------
(* run: the single-instance callback *)

Exe == "C:\\Program Files\\picologs\\picologs.exe"

\* second arguments: URLs and strings that are no URL at all
SecondArgs == { "https://deeplink/x", "not a url", "" }

\* the argument vectors of a later launch
ArgVectors ==
    { <<>>, <<Exe>> }
    \cup { <<Exe, u>> : u \in SecondArgs }
    \cup { <<Exe, "https://deeplink/x", "--flag">> }

Cwds == { "C:\\Users\\u" }

\* app.emit_to(target, event, payload); its Result is in `ok`, and `launch`
\* records the activation the call was made for
EmitTo(target, event, payload, ok, launch) ==
    [target |-> target, event |-> event, payload |-> payload, ok |-> ok, launch |-> launch]

\* args.get(1): Some(args[1]) when the vector has a second element (Rust
\* indexes from 0, TLA+ from 1)
HasSecond(args) == Len(args) >= 2

Second(args) == args[2]

\* variant: the closure reads args.get(0), the executable path
CallbackEmits_First(id, args, ok) ==
    IF Len(args) >= 1
    THEN <<EmitTo("main", "deep-link-received", args[1], ok, id)>>
    ELSE <<>>

\* variant: the closure emits args.get(1).unwrap_or_default()
CallbackEmits_Default(id, args, ok) ==
    <<EmitTo("main", "deep-link-received", IF Len(args) >= 2 THEN args[2] ELSE "", ok, id)>>

\* variant: the closure emits to every window and to "main" (app.emit, then
\* app.emit_to)
CallbackEmits_Twice(id, args, ok) ==
    IF Len(args) >= 2
    THEN << EmitTo("*", "deep-link-received", args[2], ok, id),
            EmitTo("main", "deep-link-received", args[2], ok, id) >>
    ELSE <<>>

\* lines 106-114: |app, args, _cwd| { if let Some(url) = args.get(1) { ... } }
\* the emit_to calls the closure makes for one activation, emit_to returning ok
CallbackEmits(id, args, ok) ==
    IF HasSecond(args)
    THEN <<EmitTo("main", "deep-link-received", Second(args), ok, id)>>
    ELSE <<>>

\* the lines the closure prints for one activation
CallbackPrints(args) ==
    IF HasSecond(args)
    THEN << "Received deep link in second instance: " \o Second(args),
            "Emitted deep-link-received event" >>
    ELSE <<>>

AppInit ==
    /\ alive = TRUE
    /\ launched = 0
    /\ inflight = {}
    /\ handled = {}
    /\ emitted = <<>>
    /\ stdout = <<>>

\* a later launch, made while the primary runs, hands its arguments and
\* working directory off to the primary
SecondLaunch ==
    /\ alive
    /\ launched < MaxLaunches
    /\ \E args \in ArgVectors, cwd \in Cwds :
         inflight' = inflight \cup {[id |-> launched + 1, args |-> args, cwd |-> cwd]}
    /\ launched' = launched + 1
    /\ UNCHANGED <<hostVars, discVars, alive, handled, emitted, stdout>>

\* variant: the Result of emit_to is unwrapped, so a failed emit panics in
\* the primary before the second println!
Callback_Unwrap ==
    /\ alive
    /\ \E m \in inflight, ok \in BOOLEAN :
         /\ inflight' = inflight \ {m}
         /\ handled' = handled \cup {m}
         /\ emitted' = emitted \o CallbackEmits(m.id, m.args, ok)
         /\ stdout' = stdout \o (IF HasSecond(m.args) /\ ~ok
                                 THEN <<CallbackPrints(m.args)[1]>>
                                 ELSE CallbackPrints(m.args))
         /\ alive' = (~HasSecond(m.args) \/ ok)
    /\ UNCHANGED <<hostVars, discVars, launched>>

\* the primary receives a hand-off and runs the closure on it
Callback ==
    /\ alive
    /\ \E m \in inflight, ok \in BOOLEAN :
         /\ inflight' = inflight \ {m}
         /\ handled' = handled \cup {m}
         /\ emitted' = emitted \o CallbackEmits(m.id, m.args, ok)
         /\ stdout' = stdout \o CallbackPrints(m.args)
    /\ UNCHANGED <<hostVars, discVars, alive, launched>>

\* a hand-off is lost (delivery is best-effort)
Lose ==
    /\ \E m \in inflight : inflight' = inflight \ {m}
    /\ UNCHANGED <<hostVars, discVars, alive, launched, handled, emitted, stdout>>

\* the primary exits
PrimaryExit ==
    /\ alive
    /\ alive' = FALSE
    /\ UNCHANGED <<hostVars, discVars, launched, inflight, handled, emitted, stdout>>

----------------------------------------------------------------------------
(* Specifications *)

\* the host the application part runs on: its discovery command is not invoked
QuietHost ==
    /\ windows = TRUE
    /\ reg1 = [open |-> FALSE, has |-> FALSE, value |-> <<>>]
    /\ reg2 = [open |-> FALSE, has |-> FALSE, value |-> <<>>]
    /\ appdata = [set |-> FALSE, value |-> <<>>]
    /\ fs = {}

Init == QuietHost /\ DiscInit /\ AppInit

Next == SecondLaunch \/ Callback \/ Lose \/ PrimaryExit

Spec == Init /\ [][Next]_vars

DiscoveryInit == HostInit /\ DiscInit /\ AppInit

DiscoveryNext == Invoke \/ Strategy1 \/ Strategy2 \/ Strategy3 \/ Return \/ NotWindows

DiscoverySpec == DiscoveryInit /\ [][DiscoveryNext]_vars


----------------------------------------------------------------------------
(* Claims about the single-instance callback, checked under Spec *)

\* the positions of `emitted` that were made for activation id
EmitsFor(id) == { i \in 1..Len(emitted) : emitted[i].launch = id }

C4_NoSecondArgNoEvent ==
    /\ [](\A m \in handled : Len(m.args) < 2 => EmitsFor(m.id) = {})
    /\ [][\A m \in inflight :
            (m \in handled' /\ Len(m.args) < 2) =>
                /\ emitted' = emitted
                /\ stdout' = stdout
                /\ alive' = alive]_vars

\* C4 witness: the callback has run for <<exe>> and for the empty vector
\* while the primary keeps running
C4_Witness ==
    /\ alive
    /\ \E m \in handled : m.args = <<Exe>>
    /\ \E m \in handled : m.args = <<>>


----------------------------------------------------------------------------
(* Claims about find_star_citizen_logs, checked under DiscoverySpec.  The   *)
(* expected values are written out here from the host state alone.          *)

\* an invocation has returned and none is running
Returned == pc = "idle" /\ calls > 0 /\ Len(results) = calls

\* what the last invocation returned
Last == results[Len(results)]

\* a registry key resolves: it opens and its value is read
Resolves(reg) == reg.open /\ reg.has

ScText(d) ==
    CASE d = <<"C:", "Program Files", "Roberts Space Industries", "StarCitizen">>
            -> "C:\\Program Files\\Roberts Space Industries\\StarCitizen"
      [] d = <<"D:", "Games", "StarCitizen">>
            -> "D:\\Games\\StarCitizen"
      [] d = <<"C:", "Users", "u", "AppData", "Roaming", "Roberts Space Industries", "StarCitizen">>
            -> "C:\\Users\\u\\AppData\\Roaming\\Roberts Space Industries\\StarCitizen"
      [] OTHER -> "StarCitizen"

HasLog(d, t) == (d \o <<t, "Game.log">>) \in fs

LogText(d, t) == ScText(d) \o "\\" \o t \o "\\Game.log"

\* the Game.log files of directory d that exist, LIVE then PTU then HOTFIX
ExpectedLogs(d) ==
    (IF HasLog(d, "LIVE") THEN <<LogText(d, "LIVE")>> ELSE <<>>)
    \o (IF HasLog(d, "PTU") THEN <<LogText(d, "PTU")>> ELSE <<>>)
    \o (IF HasLog(d, "HOTFIX") THEN <<LogText(d, "HOTFIX")>> ELSE <<>>)

\* the StarCitizen directory each strategy is led to
Leads1 == Resolves(reg1) /\ Len(reg1.value) >= 2

Dir1 == SubSeq(reg1.value, 1, Len(reg1.value) - 1) \o <<"StarCitizen">>

Leads2 == Resolves(reg2)

Dir2 == reg2.value \o <<"StarCitizen">>

Dir3 == appdata.value \o <<"Roberts Space Industries", "StarCitizen">>

\* strategy k finds at least one existing Game.log
Finds1 == Leads1 /\ ExpectedLogs(Dir1) # <<>>

Finds2 == Leads2 /\ ExpectedLogs(Dir2) # <<>>

Finds3 == appdata.set /\ ExpectedLogs(Dir3) # <<>>

\* the strategies that read the host during the last invocation
Attempted == { probes[i].s : i \in 1..Len(probes) }

\* the reads were made in the order of the strategies
ProbesInOrder == \A i, j \in 1..Len(probes) : i < j => probes[i].s <= probes[j].s

\* C5 as stated: when the App Paths key leads to a directory that holds
\* LIVE/Game.log, the result holds that one path and nothing else.
C5_OnlyLivePath ==
    (Returned /\ windows /\ Leads1 /\ HasLog(Dir1, "LIVE"))
        => Last = Ok(<<LogText(Dir1, "LIVE")>>)

\* C5 amended: when the App Paths key leads to a directory that holds
\* LIVE/Game.log, the result is the Game.log paths of that directory alone
\* (LIVE first, then PTU and HOTFIX where they exist), whatever APPDATA holds;
\* the strategies read the host in the order 1, 2, 3, and the first one that
\* finds a Game.log supplies the whole result and no later one is attempted.
C5_StrategyOrder ==
    (Returned /\ windows) =>
        /\ ProbesInOrder
        /\ 1 \in Attempted
        /\ (Leads1 /\ HasLog(Dir1, "LIVE")) =>
              /\ Last = Ok(ExpectedLogs(Dir1))
              /\ Last.paths[1] = LogText(Dir1, "LIVE")
        /\ Finds1 => (Last = Ok(ExpectedLogs(Dir1)) /\ Attempted = {1})
        /\ (~Finds1 /\ Finds2) => (Last = Ok(ExpectedLogs(Dir2)) /\ Attempted = {1, 2})
        /\ (~Finds1 /\ ~Finds2) => Attempted = {1, 2, 3}
        /\ (~Finds1 /\ ~Finds2 /\ Finds3) => Last = Ok(ExpectedLogs(Dir3))

\* C5 witness: strategy 1 found LIVE and PTU under Program Files while the
\* APPDATA directory and the InstallLocation directory hold logs of their own
C5_Witness ==
    /\ Returned /\ windows
    /\ Leads1 /\ Dir1 = ScProgramFiles
    /\ HasLog(ScProgramFiles, "LIVE") /\ HasLog(ScProgramFiles, "PTU")
    /\ appdata.set /\ HasLog(ScAppdata, "LIVE")
    /\ Leads2 /\ Dir2 = ScGames /\ HasLog(ScGames, "HOTFIX")
    /\ Len(Last.paths) = 2


\* C6: on Windows, when neither registry key resolves, APPDATA is set and its
\* StarCitizen directory exists without any tier Game.log, the call returns
\* Ok with exactly one element, the path of that directory.
C6_DirectoryFallback ==
    (/\ Returned /\ windows
     /\ ~Resolves(reg1) /\ ~Resolves(reg2)
     /\ appdata.set /\ Dir3 \in fs
     /\ ~HasLog(Dir3, "LIVE") /\ ~HasLog(Dir3, "PTU") /\ ~HasLog(Dir3, "HOTFIX"))
        => Last = [ok |-> TRUE,
                   paths |-> <<"C:\\Users\\u\\AppData\\Roaming\\Roberts Space Industries\\StarCitizen">>,
                   err |-> ""]

\* C6 witness: the fallback was returned although logs exist under Program
\* Files, which no registry key led to
C6_Witness ==
    /\ Returned /\ windows
    /\ reg1.open /\ ~reg1.has /\ ~reg2.open
    /\ appdata.set /\ ScAppdata \in fs /\ ExpectedLogs(ScAppdata) = <<>>
    /\ HasLog(ScProgramFiles, "LIVE")
    /\ Last.ok /\ Len(Last.paths) = 1

\* C7: on Windows, when neither registry key resolves and there is no default
\* directory (APPDATA is unset, or its StarCitizen directory does not exist),
\* the call returns Err("Could not find Star Citizen installation or logs")
\* and no path.
C7_NotFound ==
    (/\ Returned /\ windows
     /\ ~Resolves(reg1) /\ ~Resolves(reg2)
     /\ (~appdata.set \/ Dir3 \notin fs))
        => Last = [ok |-> FALSE, paths |-> <<>>,
                   err |-> "Could not find Star Citizen installation or logs"]

\* C7 witness: NotFound was returned with APPDATA set and its directory
\* missing, while logs exist on D: that nothing led to
C7_Witness ==
    /\ Returned /\ windows
    /\ ~reg1.open /\ reg2.open /\ ~reg2.has
    /\ appdata.set /\ ScAppdata \notin fs
    /\ HasLog(ScGames, "LIVE")
    /\ ~Last.ok /\ Last.err = NotFoundMsg

\* C8: on a build for another platform than Windows the call makes no read
\* of the host at any point (no registry read, no environment read, no
\* existence check), enters none of the strategies, and returns
\* Err("Star Citizen is only available on Windows") whatever the registry,
\* APPDATA and the filesystem hold.
C8_PlatformGate ==
    ~windows =>
        /\ probes = <<>>
        /\ paths = <<>>
        /\ pc \in {"idle", "not_windows"}
        /\ Returned => Last = [ok |-> FALSE, paths |-> <<>>,
                               err |-> "Star Citizen is only available on Windows"]

\* C8 witness: the call returned on a non-Windows build whose host holds
\* everything the three strategies look for
C8_Witness ==
    /\ Returned /\ ~windows
    /\ Finds1 /\ Finds2 /\ Finds3
    /\ ~Last.ok

\* what the APPDATA strategy alone returns
Expected3 ==
    IF ~appdata.set THEN Err(NotFoundMsg)
    ELSE IF ExpectedLogs(Dir3) # <<>> THEN Ok(ExpectedLogs(Dir3))
    ELSE IF Dir3 \in fs THEN Ok(<<ScText(Dir3)>>)
    ELSE Err(NotFoundMsg)

\* C10: on Windows, when the App Paths key cannot be opened or its Path value
\* cannot be read, strategy 1 makes no existence check and strategy 2 is
\* attempted; when strategy 2 is attempted and its key cannot be opened or
\* its InstallLocation value cannot be read, strategy 3 is attempted; with
\* both reads failed the result is the one of the APPDATA strategy alone; and
\* the only error the call ever returns is the NotFound string.
C10_RegistryFailureNonFatal ==
    (Returned /\ windows) =>
        /\ ~Resolves(reg1) =>
              /\ 2 \in Attempted
              /\ \A i \in 1..Len(probes) : probes[i].s = 1 => probes[i].op # "exists"
        /\ (~Resolves(reg1) /\ Finds2) => Last = Ok(ExpectedLogs(Dir2))
        /\ (2 \in Attempted /\ ~Resolves(reg2)) =>
              /\ 3 \in Attempted
              /\ \A i \in 1..Len(probes) : probes[i].s = 2 => probes[i].op # "exists"
        /\ (~Resolves(reg1) /\ ~Resolves(reg2)) => Last = Expected3
        /\ Last.ok \/ Last.err = "Could not find Star Citizen installation or logs"

\* C10 witness: the Path value could not be read, the second key could not be
\* opened, and the call still returned the logs found under APPDATA
C10_Witness ==
    /\ Returned /\ windows
    /\ reg1.open /\ ~reg1.has /\ ~reg2.open
    /\ Finds3 /\ Last.ok
    /\ Attempted = {1, 2, 3}


----------------------------------------------------------------------------
(* Claims about concurrent launches and failed emits, checked under Spec *)

\* the activations the callback has run for that carried a second argument
HandledWithSecond == { m \in handled : Len(m.args) >= 2 }

C12_EmitFailureIgnored ==
    /\ [](\A i \in 1..Len(emitted) :
            ~emitted[i].ok => Cardinality(EmitsFor(emitted[i].launch)) = 1)
    /\ [][(Len(emitted') > Len(emitted) /\ ~emitted'[Len(emitted')].ok) =>
            /\ Len(emitted') = Len(emitted) + 1
            /\ alive' = alive
            /\ Len(stdout') = Len(stdout) + 2
            /\ stdout'[Len(stdout')] = "Emitted deep-link-received event"]_vars
    /\ []((alive /\ inflight # {} /\ \E i \in 1..Len(emitted) : ~emitted[i].ok)
            => ENABLED Callback)

\* C12 witness: the emit for the first launch failed, and afterwards the
\* primary, still running, forwarded the second launch's argument
C12_Witness ==
    /\ alive
    /\ Len(emitted) = 2
    /\ ~emitted[1].ok /\ emitted[1].launch = 1
    /\ emitted[2].ok /\ emitted[2].launch = 2


----------------------------------------------------------------------------
(* Claims about repeated calls and the shape of the result, checked under   *)
(* DiscoverySpec                                                            *)

\* what a call returns, from the host state alone
ExpectedResult ==
    IF ~windows THEN Err(UnsupportedMsg)
    ELSE IF Finds1 THEN Ok(ExpectedLogs(Dir1))
    ELSE IF Finds2 THEN Ok(ExpectedLogs(Dir2))
    ELSE Expected3

\* C13: no step of a call changes the build, the registry, APPDATA or the
\* filesystem; every call, the first as well as a later one, returns what the
\* host state alone determines; hence all the calls made against one host
\* state return the same result.
C13_StatelessAndReadOnly ==
    /\ [][hostVars' = hostVars]_vars
    /\ [](Returned => Last = ExpectedResult)
    /\ [](\A i, j \in 1..Len(results) : results[i] = results[j])

\* C13 witness: two calls have returned on a Windows host where the first one
\* had collected two paths
C13_Witness ==
    /\ Returned /\ windows
    /\ Len(results) >= 2
    /\ results[1].ok /\ Len(results[1].paths) = 2

\* the Game.log texts of the tiers T of directory d, LIVE then PTU then HOTFIX
ShapeA(d, T) ==
    (IF "LIVE" \in T THEN <<LogText(d, "LIVE")>> ELSE <<>>)
    \o (IF "PTU" \in T THEN <<LogText(d, "PTU")>> ELSE <<>>)
    \o (IF "HOTFIX" \in T THEN <<LogText(d, "HOTFIX")>> ELSE <<>>)

\* the StarCitizen directories the three strategies are led to on this host
StrategyRoots ==
    (IF Leads1 THEN {Dir1} ELSE {})
    \cup (IF Leads2 THEN {Dir2} ELSE {})
    \cup (IF appdata.set THEN {Dir3} ELSE {})

\* C14: on Windows a returned Ok is never empty and is either (a) one to
\* three Game.log paths of one single strategy's directory, each existing,
\* in the order LIVE, PTU, HOTFIX without repetition, or (b) the APPDATA
\* StarCitizen directory alone; Err is returned exactly when `paths` is
\* empty, and Ok carries exactly `paths`.
C14_ResultShape ==
    (Returned /\ windows) =>
        /\ Last.ok <=> paths # <<>>
        /\ Last.ok => Last.paths = paths
        /\ ~Last.ok => Last.paths = <<>>
        /\ Last.ok =>
             \/ \E d \in StrategyRoots :
                  \E T \in (SUBSET {"LIVE", "PTU", "HOTFIX"}) \ {{}} :
                     /\ \A t \in T : HasLog(d, t)
                     /\ Last.paths = ShapeA(d, T)
                     /\ Len(Last.paths) \in 1..3
             \/ /\ appdata.set /\ Dir3 \in fs
                /\ Last.paths = <<ScText(Dir3)>>

\* C14 witness: the InstallLocation strategy returned three paths on a host
\* whose APPDATA directory holds logs too
C14_Witness ==
    /\ Returned /\ windows
    /\ ~Finds1 /\ Finds2 /\ Finds3
    /\ Dir2 # Dir3
    /\ Len(Last.paths) = 3

\* a registry strategy is led to a StarCitizen directory that exists and
\* holds no tier Game.log
RegDirEmpty1 == Leads1 /\ Dir1 \in fs /\ ExpectedLogs(Dir1) = <<>>

RegDirEmpty2 == Leads2 /\ Dir2 \in fs /\ ExpectedLogs(Dir2) = <<>>

InResult(text) == \E i \in 1..Len(Last.paths) : Last.paths[i] = text

NoDefaultDir == ~appdata.set \/ Dir3 \notin fs

\* C15 as stated: a registry-derived StarCitizen directory that exists
\* without logs is never in the result; the next strategy is attempted; and
\* with no Game.log anywhere and no APPDATA directory the call returns
\* NotFound.
C15_RegistryDirNeverReturned ==
    (Returned /\ windows) =>
        /\ RegDirEmpty1 => (~InResult(ScText(Dir1)) /\ 2 \in Attempted)
        /\ (RegDirEmpty2 /\ ~Finds1) => (~InResult(ScText(Dir2)) /\ 3 \in Attempted)
        /\ ((RegDirEmpty1 \/ RegDirEmpty2) /\ ~Finds1 /\ ~Finds2 /\ NoDefaultDir)
              => Last = Err(NotFoundMsg)

\* C15 amended: the registry strategies make no existence check of their
\* directory and push nothing for it; the next strategy is attempted; such a
\* directory is in the result only when it is also the APPDATA StarCitizen
\* directory, returned alone by strategy 3's fallback; and with no Game.log
\* anywhere and no APPDATA directory the call returns NotFound.
C15_FallbackOnlyForAppdata ==
    (Returned /\ windows) =>
        /\ \A i \in 1..Len(probes) :
              (probes[i].s \in {1, 2} /\ probes[i].op = "exists")
                 => probes[i].arg \notin {ScText(Dir1), ScText(Dir2)}
        /\ RegDirEmpty1 =>
              /\ 2 \in Attempted
              /\ InResult(ScText(Dir1)) =>
                    (appdata.set /\ Dir1 = Dir3 /\ Last = Ok(<<ScText(Dir3)>>))
        /\ (RegDirEmpty2 /\ ~Finds1) =>
              /\ 3 \in Attempted
              /\ InResult(ScText(Dir2)) =>
                    (appdata.set /\ Dir2 = Dir3 /\ Last = Ok(<<ScText(Dir3)>>))
        /\ ((RegDirEmpty1 \/ RegDirEmpty2) /\ ~Finds1 /\ ~Finds2 /\ NoDefaultDir)
              => Last = Err(NotFoundMsg)

\* C15 witness: both registry strategies were led to existing directories
\* without logs, APPDATA is set, its directory is missing, and the call
\* returned NotFound
C15_Witness ==
    /\ Returned /\ windows
    /\ RegDirEmpty1 /\ Dir1 = ScProgramFiles
    /\ RegDirEmpty2 /\ Dir2 = ScGames
    /\ appdata.set /\ Dir3 \notin fs
    /\ Last = Err(NotFoundMsg)

\* C16: on Windows with APPDATA unset (or unreadable), strategy 3 reads the
\* variable and makes no existence check, the call returns the logs of the
\* first registry strategy that finds any, and NotFound, the only error, when
\* neither finds one, whatever the usual APPDATA directory holds.
C16_AppdataUnset ==
    (Returned /\ windows /\ ~appdata.set) =>
        /\ \A i \in 1..Len(probes) : probes[i].s = 3 => probes[i].op = "env_var"
        /\ Finds1 => Last = Ok(ExpectedLogs(Dir1))
        /\ (~Finds1 /\ Finds2) => Last = Ok(ExpectedLogs(Dir2))
        /\ (~Finds1 /\ ~Finds2) =>
              /\ Last = [ok |-> FALSE, paths |-> <<>>,
                         err |-> "Could not find Star Citizen installation or logs"]
              /\ 3 \in Attempted

\* C16 witness: APPDATA is unset, the usual roaming StarCitizen directory
\* holds a LIVE log, no registry strategy found a log, and the call returned
\* NotFound after strategy 3 read the variable
C16_Witness ==
    /\ Returned /\ windows /\ ~appdata.set
    /\ HasLog(ScAppdata, "LIVE")
    /\ ~Finds1 /\ ~Finds2
    /\ ~Last.ok
    /\ 3 \in Attempted


====
